---- MODULE Spec2Model ----
(***************************************************************************)
(* A model of scraping.py: the Poképédia scraper.                          *)
(*                                                                         *)
(* Text is modelled as a sequence of one-character strings, so that        *)
(* strip(), capitalize(), replace(), join() and int() are computed and not *)
(* assumed.  A page is modelled as the part of its element tree that the   *)
(* BeautifulSoup queries of the program read.                              *)
(***************************************************************************)
EXTENDS Integers, Sequences, FiniteSets, TLC

(***************************************************************************)
(* Bounds of the model.                                                    *)
(***************************************************************************)
\* the number of <tr> rows of a listing table
MaxRows == 3
\* the number of <tr> rows of a stats table
MaxStatRows == 2
\* the number of entries of a stats mapping handed to the classification
MaxStats == 3

(***************************************************************************)
(* Python str methods.                                                     *)
(***************************************************************************)
LowerChars == <<"a","b","c","d","e","f","g","h","i","j","k","l","m",
                "n","o","p","q","r","s","t","u","v","w","x","y","z","é">>
UpperChars == <<"A","B","C","D","E","F","G","H","I","J","K","L","M",
                "N","O","P","Q","R","S","T","U","V","W","X","Y","Z","É">>
Digits == <<"0","1","2","3","4","5","6","7","8","9">>

IndexIn(c, chars) ==
  IF \E i \in 1..Len(chars) : chars[i] = c
  THEN CHOOSE i \in 1..Len(chars) : chars[i] = c
  ELSE 0

\* str.upper() and str.lower() of one character
UpperChar(c) == IF IndexIn(c, LowerChars) > 0 THEN UpperChars[IndexIn(c, LowerChars)] ELSE c
LowerChar(c) == IF IndexIn(c, UpperChars) > 0 THEN LowerChars[IndexIn(c, UpperChars)] ELSE c

\* str.capitalize(): the first character upper-cased, all the others lower-cased
capitalize(s) ==
  [i \in 1..Len(s) |-> IF i = 1 THEN UpperChar(s[i]) ELSE LowerChar(s[i])]

RECURSIVE lstrip(_)
lstrip(s) == IF s # <<>> /\ Head(s) = " " THEN lstrip(Tail(s)) ELSE s

RECURSIVE rstrip(_)
rstrip(s) ==
  IF s # <<>> /\ s[Len(s)] = " " THEN rstrip(SubSeq(s, 1, Len(s) - 1)) ELSE s

\* str.strip()
strip(s) == rstrip(lstrip(s))

IsPrefix(p, s) == Len(p) <= Len(s) /\ SubSeq(s, 1, Len(p)) = p

\* str.replace(old, new), old non-empty: leftmost non-overlapping occurrences
RECURSIVE replace(_, _, _)
replace(s, old, new) ==
  IF s = <<>> THEN <<>>
  ELSE IF IsPrefix(old, s)
       THEN new \o replace(SubSeq(s, Len(old) + 1, Len(s)), old, new)
       ELSE <<Head(s)>> \o replace(Tail(s), old, new)

\* sep.join(parts)
RECURSIVE join(_, _)
join(sep, parts) ==
  IF parts = <<>> THEN <<>>
  ELSE IF Len(parts) = 1 THEN parts[1]
       ELSE parts[1] \o sep \o join(sep, Tail(parts))

(***************************************************************************)
(* int(text): surrounding blanks are ignored, one sign is allowed, and at  *)
(* least one digit must follow and nothing else; otherwise ValueError.     *)
(***************************************************************************)
IntBody(s) ==
  LET t == strip(s)
  IN IF t # <<>> /\ Head(t) \in {"+", "-"} THEN Tail(t) ELSE t

IntParses(s) ==
  /\ IntBody(s) # <<>>
  /\ \A i \in 1..Len(IntBody(s)) : IndexIn(IntBody(s)[i], Digits) > 0

RECURSIVE DigitsValue(_)
DigitsValue(ds) ==
  IF ds = <<>> THEN 0
  ELSE 10 * DigitsValue(SubSeq(ds, 1, Len(ds) - 1)) + (IndexIn(ds[Len(ds)], Digits) - 1)

IntValue(s) ==
  LET t == strip(s)
  IN IF Head(t) = "-" THEN 0 - DigitsValue(IntBody(s)) ELSE DigitsValue(IntBody(s))

(***************************************************************************)
(* Exceptions.  An exception is its Python class, the source line that     *)
(* raises it and, for a failed request, the HTTP status code it reports.   *)
(***************************************************************************)
Raise(type, line, code) == [type |-> type, line |-> line, code |-> code]

\* the result of a call: the value returned, or the exception raised
Returned(v) == [exc |-> <<>>, value |-> <<v>>]
Raised(e) == [exc |-> <<e>>, value |-> <<>>]

(***************************************************************************)
(* The element tree of a page, as far as the program's queries read it:    *)
(*   page  = [h1: texts of the <h1> elements, cells: the <th>/<td> cells   *)
(*            ahead of the stats section in document order, span: whether  *)
(*            <span id="Statistiques"> exists, tables: the tables after it]*)
(*   cell  = [tag, text, links],  link = [title: <<>> or <<t>>, text]      *)
(*   table = [standard: class tableaustandard, rows],  row = [links, tds]  *)
(***************************************************************************)
Cell(tag, text, links) == [tag |-> tag, text |-> text, links |-> links]
Link(title, text) == [title |-> title, text |-> text]

RECURSIVE Flatten(_)
Flatten(seqs) == IF seqs = <<>> THEN <<>> ELSE Head(seqs) \o Flatten(Tail(seqs))

\* row.find_all('td')
RowTds(row) == row.tds
\* the <a> elements of a row, in document order
RowLinks(row) == row.links \o Flatten([i \in 1..Len(row.tds) |-> row.tds[i].links])
\* the <td> elements of a table, in document order
TableTds(table) == Flatten([i \in 1..Len(table.rows) |-> RowTds(table.rows[i])])

\* every <th>/<td> of the page in document order
PageCells(page) ==
  page.cells \o Flatten([i \in 1..Len(page.tables) |-> TableTds(page.tables[i])])

\* soup.find('th', string=...): the position of the first <th> whose string
\* is one of labels, 0 for None
FindTh(page, labels) ==
  LET hits == {i \in 1..Len(page.cells) :
                 page.cells[i].tag = "th" /\ page.cells[i].text \in labels}
  IN IF hits = {} THEN 0 ELSE CHOOSE i \in hits : \A j \in hits : i <= j

\* th.find_next('td'): the position in PageCells of the first <td> after
\* position i, 0 for None
FindNextTd(page, i) ==
  LET all == PageCells(page)
      hits == {j \in (i + 1)..Len(all) : all[j].tag = "td"}
  IN IF hits = {} THEN 0 ELSE CHOOSE j \in hits : \A k \in hits : j <= k

\* find('table', class_='tableaustandard') among tables: 0 for None
FindStandardTable(tables) ==
  LET hits == {i \in 1..Len(tables) : tables[i].standard}
  IN IF hits = {} THEN 0 ELSE CHOOSE i \in hits : \A j \in hits : i <= j

\* find('a', title=True) among links: the first link that has a title
\* attribute, 0 for None
FindTitledLink(links) ==
  LET hits == {i \in 1..Len(links) : links[i].title # <<>>}
  IN IF hits = {} THEN 0 ELSE CHOOSE i \in hits : \A j \in hits : i <= j

\* find('a', title=t) among links: the first link whose title is t, 0 for None
FindLinkTitled(links, t) ==
  LET hits == {i \in 1..Len(links) : links[i].title = <<t>>}
  IN IF hits = {} THEN 0 ELSE CHOOSE i \in hits : \A j \in hits : i <= j

(***************************************************************************)
(* A dict keeps its keys in insertion order; assigning to a key it holds   *)
(* replaces the value in place.                                            *)
(***************************************************************************)
DictHas(d, k) == \E i \in 1..Len(d) : d[i].k = k
DictSet(d, k, v) ==
  IF DictHas(d, k)
  THEN [i \in 1..Len(d) |-> IF d[i].k = k THEN [k |-> k, v |-> v] ELSE d[i]]
  ELSE Append(d, [k |-> k, v |-> v])

RECURSIVE DictSum(_)
DictSum(d) == IF d = <<>> THEN 0 ELSE Head(d).v + DictSum(Tail(d))

(***************************************************************************)
(* Literals of the program.                                                *)
(***************************************************************************)
TypesLabel == <<"T","y","p","e","s">>
TypeLabel == <<"T","y","p","e">>
TailleLabel == <<"T","a","i","l","l","e">>
PoidsLabel == <<"P","o","i","d","s">>
TypeSuffix == <<" ","(","t","y","p","e",")">>
StatistiqueTitle == <<"S","t","a","t","i","s","t","i","q","u","e">>

(***************************************************************************)
(* parse_html                                                              *)
(***************************************************************************)
\* [a['title'].replace(" (type)", "") for a in td.find_all('a') if 'title' in a.attrs]
RECURSIVE TypeTitles(_)
TypeTitles(links) ==
  IF links = <<>> THEN <<>>
  ELSE IF Head(links).title # <<>>
       THEN <<replace(Head(links).title[1], TypeSuffix, <<>>)>> \o TypeTitles(Tail(links))
       ELSE TypeTitles(Tail(links))

\* lines 57-61: the value bound to the local `types`, <<>> when the `if` is
\* not taken and the local stays unbound; raises when find_next gives None
ParseTypes(page) ==
  LET th == FindTh(page, {TypesLabel, TypeLabel})
      td == FindNextTd(page, th)
  IN IF th = 0 THEN Returned(<<>>)
     ELSE IF td = 0 THEN Raised(Raise("AttributeError", 60, 0))
     ELSE Returned(<<join(<<"-">>, TypeTitles(PageCells(page)[td].links))>>)

\* lines 64 and 65: soup.find('th', string=label).find_next('td').text.strip()
ParseLabelled(page, label, line) ==
  LET th == FindTh(page, {label})
      td == FindNextTd(page, th)
  IN IF th = 0 \/ td = 0 THEN Raised(Raise("AttributeError", line, 0))
     ELSE Returned(strip(PageCells(page)[td].text))

\* the loop of lines 76-85 with a row whose value is no integer skipped
RECURSIVE ParseStatRowsSkipBad(_, _)
ParseStatRowsSkipBad(rows, stats) ==
  IF rows = <<>> THEN Returned(stats)
  ELSE LET row == Head(rows)
           a == FindLinkTitled(RowLinks(row), StatistiqueTitle)
           columns == RowTds(row)
       IN IF a = 0 \/ Len(columns) < 2 \/ ~IntParses(columns[2].text)
          THEN ParseStatRowsSkipBad(Tail(rows), stats)
          ELSE ParseStatRowsSkipBad(Tail(rows),
                 DictSet(stats, strip(RowLinks(row)[a].text), IntValue(columns[2].text)))

\* lines 76-85: the loop over the rows of the stats table
RECURSIVE ParseStatRows(_, _)
ParseStatRows(rows, stats) ==
  IF rows = <<>> THEN Returned(stats)
  ELSE LET row == Head(rows)
           a == FindLinkTitled(RowLinks(row), StatistiqueTitle)
           columns == RowTds(row)
       IN IF a = 0 \/ Len(columns) < 2 THEN ParseStatRows(Tail(rows), stats)
          ELSE IF ~IntParses(columns[2].text) THEN Raised(Raise("ValueError", 84, 0))
          ELSE ParseStatRows(Tail(rows),
                 DictSet(stats, strip(RowLinks(row)[a].text), IntValue(columns[2].text)))

\* lines 69-85
ParseStats(page) ==
  LET t == FindStandardTable(page.tables)
  IN IF ~page.span \/ t = 0 THEN Returned(<<>>)
     ELSE ParseStatRows(page.tables[t].rows, <<>>)

\* lines 51-93
parse_html(page) ==
  LET types == ParseTypes(page)
      height == ParseLabelled(page, TailleLabel, 64)
      weight == ParseLabelled(page, PoidsLabel, 65)
      stats == ParseStats(page)
  IN IF page.h1 = <<>> THEN Raised(Raise("AttributeError", 54, 0))
     ELSE IF types.exc # <<>> THEN types
     ELSE IF height.exc # <<>> THEN height
     ELSE IF weight.exc # <<>> THEN weight
     ELSE IF stats.exc # <<>> THEN stats
     ELSE IF types.value[1] = <<>> THEN Raised(Raise("UnboundLocalError", 89, 0))
     ELSE Returned([name |-> strip(page.h1[1]),
                    types |-> types.value[1][1],
                    height |-> height.value[1],
                    weight |-> weight.value[1],
                    stats |-> stats.value[1]])

(***************************************************************************)
(* The network.  requests.get(url, timeout=300) either raises (no answer   *)
(* within the timeout, no connection) or gives a response with a status    *)
(* code and a text.                                                        *)
(***************************************************************************)
Response(status_code, text) == [failed |-> FALSE, status_code |-> status_code, text |-> <<text>>]
NoResponse == [failed |-> TRUE, status_code |-> 0, text |-> <<>>]

POKEPEDIA == <<"https://pokepedia.fr/">>

GENERTAIONS_URL ==
  << <<"Liste_des_Pokémon_de_la_première_génération">>,
     <<"Liste_des_Pokémon_de_la_deuxième_génération">>,
     <<"Liste_des_Pokémon_de_la_troisième_génération">>,
     <<"Liste_des_Pokémon_de_la_quatrième_génération">>,
     <<"Liste_des_Pokémon_de_la_cinquième_génération">>,
     <<"Liste_des_Pokémon_de_la_sixième_génération">>,
     <<"Liste_des_Pokémon_de_la_septième_génération">>,
     <<"Liste_des_Pokémon_de_la_huitième_génération">>,
     <<"Liste_des_Pokémon_de_la_neuvième_génération">> >>

\* a call's result together with the requests it sent, in order
WithRequests(result, urls) == [exc |-> result.exc, value |-> result.value, urls |-> urls]

(***************************************************************************)
(* get_html_pokemon                                                        *)
(***************************************************************************)
\* lines 33-40 without the branch of lines 37-38
get_html_pokemon_no404(pokemon_name, response) ==
  WithRequests(
    IF response.failed THEN Raised(Raise("RequestException", 34, 0))
    ELSE IF response.status_code = 200 THEN Returned(response.text[1])
    ELSE Raised(Raise("Exception", 40, response.status_code)),
    <<POKEPEDIA \o pokemon_name>>)

\* lines 33-40, given the answer to the request of line 34
get_html_pokemon(pokemon_name, response) ==
  WithRequests(
    IF response.failed THEN Raised(Raise("RequestException", 34, 0))
    ELSE IF response.status_code = 200 THEN Returned(response.text[1])
    ELSE IF response.status_code = 404 THEN Raised(Raise("ValueError", 38, 404))
    ELSE Raised(Raise("Exception", 40, response.status_code)),
    <<POKEPEDIA \o pokemon_name>>)

(***************************************************************************)
(* get_pokemons_from_generation                                            *)
(***************************************************************************)
\* the loop of lines 120-129 with `len(columns) > 3` for `len(columns) >= 3`
RECURSIVE ListingNamesMoreThan3(_)
ListingNamesMoreThan3(rows) ==
  IF rows = <<>> THEN <<>>
  ELSE LET columns == RowTds(Head(rows))
           name == IF Len(columns) > 3 THEN FindTitledLink(columns[3].links) ELSE 0
       IN IF name = 0 THEN ListingNamesMoreThan3(Tail(rows))
          ELSE <<strip(columns[3].links[name].title[1])>> \o ListingNamesMoreThan3(Tail(rows))

\* lines 120-129: the loop over the rows of the listing table
RECURSIVE ListingNames(_)
ListingNames(rows) ==
  IF rows = <<>> THEN <<>>
  ELSE LET columns == RowTds(Head(rows))
           name == IF Len(columns) >= 3 THEN FindTitledLink(columns[3].links) ELSE 0
       IN IF name = 0 THEN ListingNames(Tail(rows))
          ELSE <<strip(columns[3].links[name].title[1])>> \o ListingNames(Tail(rows))

\* lines 111-134 with an empty roster, not an exception, for a missing table
ParseListingEmptyWhenMissing(tables) ==
  LET table == FindStandardTable(tables)
      pokemon_list == IF table = 0 THEN <<>> ELSE ListingNames(tables[table].rows)
  IN Returned([i \in 1..Len(pokemon_list) |-> capitalize(pokemon_list[i])])

\* lines 111-134: the roster of a listing page whose tables are `tables`
ParseListing(tables) ==
  LET table == FindStandardTable(tables)
      pokemon_list == ListingNames(tables[table].rows)
  IN IF table = 0 THEN Raised(Raise("Exception", 116, 0))
     ELSE Returned([i \in 1..Len(pokemon_list) |-> capitalize(pokemon_list[i])])

\* lines 107-136 alone, without the check of lines 104-105: the lookup of
\* line 107 raises KeyError for a generation that is no key
get_pokemons_from_generation_unchecked(generation, response) ==
  IF generation \notin DOMAIN GENERTAIONS_URL
  THEN WithRequests(Raised(Raise("KeyError", 107, 0)), <<>>)
  ELSE WithRequests(
         IF response.failed THEN Raised(Raise("RequestException", 108, 0))
         ELSE IF response.status_code = 200 THEN ParseListing(response.text[1].tables)
         ELSE Raised(Raise("Exception", 136, response.status_code)),
         <<POKEPEDIA \o GENERTAIONS_URL[generation]>>)

\* lines 104-136, given the answer to the request of line 108
get_pokemons_from_generation(generation, response) ==
  IF generation \notin DOMAIN GENERTAIONS_URL
  THEN WithRequests(Raised(Raise("ValueError", 105, 0)), <<>>)
  ELSE WithRequests(
         IF response.failed THEN Raised(Raise("RequestException", 108, 0))
         ELSE IF response.status_code = 200 THEN ParseListing(response.text[1].tables)
         ELSE Raised(Raise("Exception", 136, response.status_code)),
         <<POKEPEDIA \o GENERTAIONS_URL[generation]>>)

(***************************************************************************)
(* create_database: the classification of lines 161-176.  The average is   *)
(* the quotient AverageNum / AverageDen; Python compares the float         *)
(* sum/len, which for these magnitudes orders against 50, 100 and 150 as   *)
(* the exact quotient does.                                                *)
(***************************************************************************)
AverageNum(stats) == IF stats # <<>> THEN DictSum(stats) ELSE 0
AverageDen(stats) == IF stats # <<>> THEN Len(stats) ELSE 1

\* average_stats <= c  and  c < average_stats
AverageLeq(stats, c) == AverageNum(stats) <= c * AverageDen(stats)
AverageGt(stats, c) == c * AverageDen(stats) < AverageNum(stats)

\* lines 169-176 with `average_stats < 50` for `average_stats <= 50`
DevisStrict(stats) ==
  IF ~AverageLeq(stats, 50) \/ AverageNum(stats) = 50 * AverageDen(stats)
  THEN IF AverageLeq(stats, 100) THEN "Superball"
       ELSE IF AverageLeq(stats, 150) THEN "Hyperball"
       ELSE "Masterball"
  ELSE "Pokéball"

\* lines 169-176
Devis(stats) ==
  IF AverageLeq(stats, 50) THEN "Pokéball"
  ELSE IF AverageGt(stats, 50) /\ AverageLeq(stats, 100) THEN "Superball"
  ELSE IF AverageGt(stats, 100) /\ AverageLeq(stats, 150) THEN "Hyperball"
  ELSE "Masterball"

(***************************************************************************)
(* create_database: the body of the loop, lines 153-183.                   *)
(***************************************************************************)
fieldnames == <<"name", "types", "height", "weight", "stats", "devis">>

PrintLine(line, text, exc) == [line |-> line, text |-> text, exc |-> exc]

\* the line writer.writeheader() writes and the line writer.writerow(info) writes
HeaderLine == [kind |-> "header", cols |-> fieldnames, row |-> <<>>]
DataLine(info) == [kind |-> "data", cols |-> fieldnames, row |-> <<info>>]

\* line 179: pokemon_info['devis'] = devis
WithDevis(info) ==
  [name |-> info.name, types |-> info.types, height |-> info.height,
   weight |-> info.weight, stats |-> info.stats, devis |-> Devis(info.stats)]

\* an `except ValueError` in place of line 182's `except Exception`
IsExceptionOnlyValueError(type) == type = "ValueError"

\* line 182, `except Exception`: the classes it catches among those raised
IsException(type) ==
  type \in {"Exception", "ValueError", "AttributeError", "UnboundLocalError",
            "RequestException", "OSError"}

\* lines 182-183 for the exception raised inside the try block
Handler(pokemon, urls, printed, exc) ==
  IF IsException(exc[1].type)
  THEN [urls |-> urls, written |-> <<>>, exc |-> <<>>,
        printed |-> Append(printed, PrintLine(183, pokemon, exc))]
  ELSE [urls |-> urls, written |-> <<>>, exc |-> exc, printed |-> printed]

\* what one iteration for `pokemon` does, given the answer to its request:
\* the requests sent, the lines written to the file, the lines printed, and
\* the exception that leaves the loop
LoopBody(pokemon, answer) ==
  LET html == get_html_pokemon(pokemon, answer)
      pokemon_info == parse_html(html.value[1])
  IN IF html.exc # <<>> THEN Handler(pokemon, html.urls, <<>>, html.exc)
     ELSE IF pokemon_info.exc # <<>>
     THEN Handler(pokemon, html.urls, <<PrintLine(155, pokemon, <<>>)>>, pokemon_info.exc)
     ELSE [urls |-> html.urls,
           written |-> <<DataLine(WithDevis(pokemon_info.value[1]))>>,
           exc |-> <<>>,
           printed |-> <<PrintLine(155, pokemon, <<>>),
                         PrintLine(159, pokemon_info.value[1].name, <<>>)>>]

\* str(n) of an int
RECURSIVE NatStr(_)
NatStr(n) == IF n < 10 THEN <<Digits[n + 1]>> ELSE NatStr(n \div 10) \o <<Digits[(n % 10) + 1]>>
IntStr(n) == IF n < 0 THEN <<"-">> \o NatStr(0 - n) ELSE NatStr(n)

\* Python values a function of the program returns
PyNone == [type |-> "NoneType", int |-> 0]
PyInt(n) == [type |-> "int", int |-> n]

(***************************************************************************)
(* Inputs: what the user types and what the site answers.                  *)
(***************************************************************************)
SeqsUpTo(S, n) == UNION {[1..k -> S] : k \in 0..n}

\* answers to "Enter the generation number (1-9): "
GenerationInputs == {<<"-","1">>, <<"0">>, <<"9">>, <<"1","0">>, <<"x">>}
\* answers to "Enter the name of the Pokémon (ex: Bulbizarre): "
NameInputs == {<<"M","e","w">>, <<" ","m","e","w">>}

TitleA == <<"m","e","w">>
TitleB == <<" ","é","V","O"," ">>
PlainTd == Cell("td", <<"1">>, <<>>)
NameTd(links) == Cell("td", <<"n">>, links)
Tr(links, tds) == [links |-> links, tds |-> tds]
Table(standard, rows) == [standard |-> standard, rows |-> rows]

\* rows of a listing table: a header row, a short row, rows whose 3rd cell
\* has no link, an untitled link, a titled link, an untitled then a titled link
ListingRows ==
  { Tr(<<>>, <<>>),
    Tr(<<>>, <<PlainTd, NameTd(<<Link(<<TitleA>>, TitleA)>>)>>),
    Tr(<<>>, <<PlainTd, PlainTd, NameTd(<<>>)>>),
    Tr(<<>>, <<PlainTd, PlainTd, NameTd(<<Link(<<>>, TitleA)>>)>>),
    Tr(<<>>, <<PlainTd, PlainTd, NameTd(<<Link(<<TitleA>>, TitleA)>>)>>),
    Tr(<<>>, <<PlainTd, PlainTd, NameTd(<<Link(<<>>, TitleA), Link(<<TitleB>>, TitleB)>>)>>),
    Tr(<<>>, <<PlainTd, NameTd(<<Link(<<TitleA>>, TitleA)>>), NameTd(<<Link(<<TitleB>>, TitleB)>>), PlainTd>>) }

\* the tables of a listing page
ListingTables ==
  {<<>>, <<Table(FALSE, <<>>)>>}
    \cup {<<Table(TRUE, rows)>> : rows \in SeqsUpTo(ListingRows, MaxRows)}
    \cup {<<Table(FALSE, rows), Table(TRUE, rows)>> : rows \in SeqsUpTo(ListingRows, 1)}

ListingResponses ==
  {NoResponse, Response(404, [tables |-> <<>>]), Response(500, [tables |-> <<>>])}
    \cup {Response(200, [tables |-> t]) : t \in ListingTables}

\* the pieces of a Pokémon page
Page(h1, cells, span, tables) == [h1 |-> h1, cells |-> cells, span |-> span, tables |-> tables]
Labelled(label, text, links) == <<Cell("th", label, <<>>), Cell("td", text, links)>>

Feu == <<"F","e","u">>
Vol == <<"V","o","l">>
TypeLinks ==
  { <<>>,
    <<Link(<<Feu \o TypeSuffix>>, Feu)>>,
    <<Link(<<Feu \o TypeSuffix>>, Feu), Link(<<Vol \o TypeSuffix>>, Vol)>>,
    <<Link(<<>>, Feu), Link(<<Vol>>, Vol)>> }

\* the types row: absent, labelled Types or Type, or a label with no cell
TypesParts ==
  {<<>>, <<Cell("th", TypesLabel, <<>>)>>}
    \cup {Labelled(label, <<"t">>, links) : label \in {TypesLabel, TypeLabel}, links \in TypeLinks}
TailleParts == {<<>>, Labelled(TailleLabel, <<" ","0",",","4"," ","m"," ">>, <<>>)}
PoidsParts == {<<>>, Labelled(PoidsLabel, <<"4"," ","k","g">>, <<>>)}

PV == <<"P","V">>
Attaque == <<"A","t","t">>
StatLink(name) == Link(<<StatistiqueTitle>>, name)
StatTd(text) == Cell("td", text, <<>>)

\* rows of a stats table: a header row, a stat row with one cell, stat rows
\* with an integer, and stat rows with something else, in the 2nd cell
StatRows ==
  { Tr(<<Link(<<>>, PV)>>, <<StatTd(<<"1">>), StatTd(<<"x">>)>>),
    Tr(<<StatLink(PV)>>, <<StatTd(<<"4","5">>)>>),
    Tr(<<StatLink(PV)>>, <<StatTd(<<"1">>), StatTd(<<" ","4","5"," ">>)>>),
    Tr(<<StatLink(Attaque)>>, <<StatTd(<<"1">>), StatTd(<<"1","6","0">>), StatTd(<<"x">>)>>),
    Tr(<<StatLink(Attaque)>>, <<StatTd(<<"1">>), StatTd(<<"4","x">>)>>),
    Tr(<<StatLink(PV)>>, <<StatTd(<<"1">>), StatTd(<<>>)>>) }

\* the tables after the stats heading
StatTables ==
  {<<>>, <<Table(FALSE, <<>>)>>}
    \cup {<<Table(TRUE, rows)>> : rows \in SeqsUpTo(StatRows, MaxStatRows)}

\* the pages handed to parse_html and to the loop body alone
Pages ==
  { Page(h1, types \o taille \o poids, span, tables) :
      h1 \in {<<>>, <<<<" ","M","e","w">>>>},
      types \in TypesParts, taille \in TailleParts, poids \in PoidsParts,
      span \in BOOLEAN, tables \in StatTables }

MewH1 == <<<<" ","M","e","w">>>>
GoodTaille == Labelled(TailleLabel, <<" ","0",",","4"," ","m"," ">>, <<>>)
GoodPoids == Labelled(PoidsLabel, <<"4"," ","k","g">>, <<>>)
GoodTypes == Labelled(TypesLabel, <<"t">>, <<Link(<<Feu \o TypeSuffix>>, Feu), Link(<<Vol \o TypeSuffix>>, Vol)>>)
PVRow == Tr(<<StatLink(PV)>>, <<StatTd(<<"1">>), StatTd(<<" ","4","5"," ">>)>>)
AttaqueRow == Tr(<<StatLink(Attaque)>>, <<StatTd(<<"1">>), StatTd(<<"1","6","0">>), StatTd(<<"x">>)>>)
BadRow == Tr(<<StatLink(Attaque)>>, <<StatTd(<<"1">>), StatTd(<<"4","x">>)>>)
EmptyPage == Page(<<>>, <<>>, FALSE, <<>>)

\* the pages the site answers with during a run of the program: two that
\* parse, and one for each way parse_html fails
BuildPages ==
  { Page(MewH1, GoodTypes \o GoodTaille \o GoodPoids, TRUE, <<Table(TRUE, <<PVRow, AttaqueRow>>)>>),
    Page(MewH1, Labelled(TypeLabel, <<"t">>, <<>>) \o GoodTaille \o GoodPoids, FALSE, <<>>),
    EmptyPage,
    Page(MewH1, GoodTaille \o GoodPoids, TRUE, <<Table(TRUE, <<PVRow>>)>>),
    Page(MewH1, GoodTypes \o GoodPoids, FALSE, <<>>),
    Page(MewH1, GoodTypes \o GoodTaille \o GoodPoids, TRUE, <<Table(TRUE, <<PVRow, BadRow>>)>>) }

PokemonResponses ==
  {NoResponse, Response(404, EmptyPage), Response(500, EmptyPage)}
    \cup {Response(200, page) : page \in BuildPages}

(***************************************************************************)
(* The program.                                                            *)
(*   pc            where main is                                           *)
(*   generation    <<>>, or <<g>> once line 213 has read g                 *)
(*   all_pokemons  the roster of line 144                                  *)
(*   idx           the position in all_pokemons of the loop of line 152    *)
(*   response      the last answer requests.get gave (lines 34, 108)       *)
(*   requests      the URLs requested so far                               *)
(*   file          the state of OUTPUT_DIR/pokemon_GEN{generation}.csv     *)
(*   csvfile       the lines written to it                                 *)
(*   stdout        the lines printed                                       *)
(*   raised        <<>>, or <<e>>: the exception that reached main's       *)
(*                 handler out of create_database, get_pokemon or int      *)
(*   returned      <<>>, or <<v>> once create_database has returned v      *)
(*   call          the application of one function to one argument, in the *)
(*                 specifications of the functions alone                   *)
(***************************************************************************)
VARIABLES pc, generation, all_pokemons, idx, response, requests, file, csvfile,
          stdout, raised, returned, call

vars == <<pc, generation, all_pokemons, idx, response, requests, file, csvfile,
          stdout, raised, returned, call>>

NoCall == [fn |-> "none", arg |-> <<>>, result |-> <<>>]

Init ==
  /\ pc = "main"
  /\ generation = <<>>
  /\ all_pokemons = <<>>
  /\ idx = 0
  /\ response = NoResponse
  /\ requests = <<>>
  /\ file = "absent"
  /\ csvfile = <<>>
  /\ stdout = <<>>
  /\ raised = <<>>
  /\ returned = <<>>
  /\ call = NoCall

\* lines 211-213 and 216: the two prompts
Main ==
  /\ pc = "main"
  /\ \E a \in {"yes", "no"} :
       IF a = "yes"
       THEN \E text \in GenerationInputs :
              IF IntParses(text)
              THEN /\ generation' = <<IntValue(text)>>
                   /\ pc' = "create_database"
                   /\ raised' = raised
              ELSE /\ raised' = <<Raise("ValueError", 213, 0)>>
                   /\ pc' = "except"
                   /\ generation' = generation
       ELSE /\ pc' = "get_pokemon"
            /\ UNCHANGED <<generation, raised>>
  /\ UNCHANGED <<all_pokemons, idx, response, requests, file, csvfile, stdout, returned, call>>

\* line 144: all_pokemons = get_pokemons_from_generation(generation)
GetRoster ==
  /\ pc = "create_database"
  /\ \E answer \in ListingResponses :
       LET r == get_pokemons_from_generation(generation[1], answer)
       IN /\ requests' = requests \o r.urls
          /\ response' = IF r.urls = <<>> THEN response ELSE answer
          /\ IF r.exc # <<>>
             THEN /\ raised' = r.exc
                  /\ pc' = "except"
                  /\ all_pokemons' = all_pokemons
             ELSE /\ all_pokemons' = r.value[1]
                  /\ pc' = "open"
                  /\ raised' = raised
  /\ UNCHANGED <<generation, idx, file, csvfile, stdout, returned, call>>

\* lines 146-150 without line 151, writer.writeheader()
OpenFileNoHeader ==
  /\ pc = "open"
  /\ \E opens \in BOOLEAN :
       IF opens
       THEN /\ file' = "open"
            /\ csvfile' = <<>>
            /\ idx' = 1
            /\ pc' = "loop"
            /\ raised' = raised
       ELSE /\ raised' = <<Raise("OSError", 147, 0)>>
            /\ pc' = "except"
            /\ UNCHANGED <<file, csvfile, idx>>
  /\ UNCHANGED <<generation, all_pokemons, response, requests, stdout, returned, call>>

\* lines 146-151: open(file, 'w', ...) raises when OUTPUT_DIR is missing or
\* not writable; otherwise the file is created empty and the header written
OpenFile ==
  /\ pc = "open"
  /\ \E opens \in BOOLEAN :
       IF opens
       THEN /\ file' = "open"
            /\ csvfile' = <<HeaderLine>>
            /\ idx' = 1
            /\ pc' = "loop"
            /\ raised' = raised
       ELSE /\ raised' = <<Raise("OSError", 147, 0)>>
            /\ pc' = "except"
            /\ UNCHANGED <<file, csvfile, idx>>
  /\ UNCHANGED <<generation, all_pokemons, response, requests, stdout, returned, call>>

\* lines 152-183: one iteration of the loop; an exception the handler does
\* not catch leaves the with block, which closes the file
LoopIteration ==
  /\ pc = "loop"
  /\ idx <= Len(all_pokemons)
  /\ \E answer \in PokemonResponses :
       LET body == LoopBody(all_pokemons[idx], answer)
       IN /\ response' = answer
          /\ requests' = requests \o body.urls
          /\ csvfile' = csvfile \o body.written
          /\ stdout' = stdout \o body.printed
          /\ IF body.exc = <<>>
             THEN /\ idx' = idx + 1
                  /\ UNCHANGED <<pc, file, raised>>
             ELSE /\ raised' = body.exc
                  /\ file' = "closed"
                  /\ pc' = "except"
                  /\ idx' = idx
  /\ UNCHANGED <<generation, all_pokemons, returned, call>>

\* the end of create_database with a `return` of the number of rows written
CreateDatabaseReturnCount ==
  /\ pc = "loop"
  /\ idx > Len(all_pokemons)
  /\ file' = "closed"
  /\ returned' = <<PyInt(Len(csvfile) - 1)>>
  /\ stdout' = Append(stdout, PrintLine(215, IntStr(generation[1]), <<>>))
  /\ pc' = "exit"
  /\ UNCHANGED <<generation, all_pokemons, idx, response, requests, csvfile, raised, call>>

\* the loop is over: the with block closes the file, create_database
\* returns (it has no return statement), and main prints line 215
CreateDatabaseReturn ==
  /\ pc = "loop"
  /\ idx > Len(all_pokemons)
  /\ file' = "closed"
  /\ returned' = <<PyNone>>
  /\ stdout' = Append(stdout, PrintLine(215, IntStr(generation[1]), <<>>))
  /\ pc' = "exit"
  /\ UNCHANGED <<generation, all_pokemons, idx, response, requests, csvfile, raised, call>>

\* lines 199-200
RECURSIVE PrintStats(_)
PrintStats(stats) ==
  IF stats = <<>> THEN <<>>
  ELSE <<PrintLine(200, Head(stats).k \o <<":", " ">> \o IntStr(Head(stats).v), <<>>)>>
         \o PrintStats(Tail(stats))

\* lines 190-200: the name typed is requested as typed (line 191 drops the
\* stripped, capitalized copy)
get_pokemon(pokemon, answer) ==
  LET html == get_html_pokemon(pokemon, answer)
      pokemon_info == parse_html(html.value[1])
      info == pokemon_info.value[1]
  IN IF html.exc # <<>> THEN [urls |-> html.urls, exc |-> html.exc, printed |-> <<>>]
     ELSE IF pokemon_info.exc # <<>>
     THEN [urls |-> html.urls, exc |-> pokemon_info.exc, printed |-> <<>>]
     ELSE [urls |-> html.urls, exc |-> <<>>,
           printed |-> <<PrintLine(194, info.name, <<>>), PrintLine(195, info.types, <<>>),
                         PrintLine(196, info.height, <<>>), PrintLine(197, info.weight, <<>>),
                         PrintLine(198, <<>>, <<>>)>> \o PrintStats(info.stats)]

\* line 217: get_pokemon()
GetPokemon ==
  /\ pc = "get_pokemon"
  /\ \E pokemon \in NameInputs, answer \in PokemonResponses :
       LET r == get_pokemon(pokemon, answer)
       IN /\ response' = answer
          /\ requests' = requests \o r.urls
          /\ stdout' = stdout \o r.printed
          /\ raised' = r.exc
          /\ pc' = IF r.exc # <<>> THEN "except" ELSE "exit"
  /\ UNCHANGED <<generation, all_pokemons, idx, file, csvfile, returned, call>>

\* lines 218-219: main's handler prints the exception; the process ends
MainExcept ==
  /\ pc = "except"
  /\ stdout' = Append(stdout, PrintLine(219, <<>>, raised))
  /\ pc' = "exit"
  /\ UNCHANGED <<generation, all_pokemons, idx, response, requests, file, csvfile,
                 raised, returned, call>>

Next ==
  \/ Main
  \/ GetRoster
  \/ OpenFile
  \/ LoopIteration
  \/ CreateDatabaseReturn
  \/ GetPokemon
  \/ MainExcept

Spec == Init /\ [][Next]_vars

(***************************************************************************)
(* The functions alone: one application of parse_html, of the loop body    *)
(* (for a page answered with status 200) or of the classification, to an   *)
(* argument drawn from a bounded set.                                      *)
(***************************************************************************)
StatNames == <<PV, Attaque, <<"D","é","f">>, <<"V","i","t">>, <<"S","p","e">>>>
StatValues == {0, 49, 50, 51, 100, 101, 150, 151, 255}

\* the stats mappings of n entries
StatsOfLen(n) ==
  {[i \in 1..n |-> [k |-> StatNames[i], v |-> f[i]]] : f \in [1..n -> StatValues]}

Call(fn, arg) == [fn |-> fn, arg |-> <<arg>>, result |-> <<>>]

InitCalls ==
  /\ pc = "main"
  /\ generation = <<>>
  /\ all_pokemons = <<>>
  /\ idx = 0
  /\ response = NoResponse
  /\ requests = <<>>
  /\ file = "absent"
  /\ csvfile = <<>>
  /\ stdout = <<>>
  /\ raised = <<>>
  /\ returned = <<>>
  /\ \/ \E page \in Pages : call = Call("parse_html", page)
     \/ \E page \in Pages : call = Call("LoopBody", page)
     \/ \E n \in 0..MaxStats : \E stats \in StatsOfLen(n) : call = Call("Devis", stats)

ParseHtmlCall ==
  /\ call.fn = "parse_html"
  /\ call.result = <<>>
  /\ call' = [call EXCEPT !.result = <<parse_html(call.arg[1])>>]
  /\ UNCHANGED <<pc, generation, all_pokemons, idx, response, requests, file, csvfile,
                 stdout, raised, returned>>

LoopBodyCall ==
  /\ call.fn = "LoopBody"
  /\ call.result = <<>>
  /\ call' = [call EXCEPT !.result = <<LoopBody(capitalize(TitleA), Response(200, call.arg[1]))>>]
  /\ UNCHANGED <<pc, generation, all_pokemons, idx, response, requests, file, csvfile,
                 stdout, raised, returned>>

DevisCall ==
  /\ call.fn = "Devis"
  /\ call.result = <<>>
  /\ call' = [call EXCEPT !.result = <<Devis(call.arg[1])>>]
  /\ UNCHANGED <<pc, generation, all_pokemons, idx, response, requests, file, csvfile,
                 stdout, raised, returned>>

NextCalls ==
  \/ ParseHtmlCall
  \/ LoopBodyCall
  \/ DevisCall

SpecCalls == InitCalls /\ [][NextCalls]_vars

(***************************************************************************)
(* Properties.                                                             *)
(***************************************************************************)
DataRows(lines) == Cardinality({i \in 1..Len(lines) : lines[i].kind = "data"})
ErrorLines(out) == Cardinality({i \in 1..Len(out) : out[i].line = 183})

\* the fetch or the parse of a roster member fails, given the answer
MemberFails(pokemon, answer) ==
  \/ get_html_pokemon(pokemon, answer).exc # <<>>
  \/ parse_html(answer.text[1]).exc # <<>>

\* in and after the loop: one data row per member done that did not fail,
\* one reported error per member done that failed, nothing propagated
C1_Counts ==
  (file # "absent" /\ pc # "loop" => pc = "exit" /\ returned # <<>>)
  /\ (file # "absent" =>
        /\ raised = <<>>
        /\ DataRows(csvfile) + ErrorLines(stdout) = idx - 1
        /\ (pc = "exit" => idx = Len(all_pokemons) + 1))

\* an iteration writes one row exactly when its member does not fail, and
\* goes on to the next member either way
C1_Iteration ==
  pc = "loop" /\ idx <= Len(all_pokemons) =>
    /\ pc' = "loop"
    /\ idx' = idx + 1
    /\ DataRows(csvfile') =
         DataRows(csvfile) + (IF MemberFails(all_pokemons[idx], response') THEN 0 ELSE 1)
    /\ ErrorLines(stdout') =
         ErrorLines(stdout) + (IF MemberFails(all_pokemons[idx], response') THEN 1 ELSE 0)

\* C1: over a roster of n names of which k fail to fetch or parse,
\* create_database writes exactly n-k data rows, one per member that did not
\* fail, goes on to every member after a failure, and propagates none of
\* the per-member failures.
C1_FailureIsolation == [][C1_Iteration /\ C1_Counts']_vars

\* a finished run over 3 names with 2 rows, a failure reported before a
\* later member was parsed
C1_Witness ==
  /\ pc = "exit"
  /\ returned # <<>>
  /\ Len(all_pokemons) = 3
  /\ DataRows(csvfile) = 2
  /\ \E i, j \in 1..Len(stdout) : i < j /\ stdout[i].line = 183 /\ stdout[j].line = 159

\* a page with a heading, the Taille and Poids rows, no Types or Type label
\* cell, and a stats section that parses
LacksTypes(page) ==
  /\ page.h1 # <<>>
  /\ FindTh(page, {TailleLabel}) > 0
  /\ FindTh(page, {PoidsLabel}) > 0
  /\ FindTh(page, {TypesLabel, TypeLabel}) = 0
  /\ ParseStats(page).exc = <<>>

\* C2: on a page with a top-level heading and the Taille and Poids label
\* cells but no Types or Type label cell, parse_html does not fail and
\* returns a record whose types field is empty.
C2_TypesAbsent ==
  call.fn = "parse_html" /\ call.result # <<>> /\ LacksTypes(call.arg[1]) =>
    /\ call.result[1].exc = <<>>
    /\ call.result[1].value # <<>>
    /\ call.result[1].value[1].types = <<>>

\* the tier the thresholds give to a stats mapping of sum s and n entries:
\* the average is s/n, or 0 for n = 0
TierOf(s, n) ==
  LET num == IF n = 0 THEN 0 ELSE s
      den == IF n = 0 THEN 1 ELSE n
  IN CASE num <= 50 * den -> "Pokéball"
       [] 50 * den < num /\ num <= 100 * den -> "Superball"
       [] 100 * den < num /\ num <= 150 * den -> "Hyperball"
       [] 150 * den < num -> "Masterball"

\* C3: for every stats mapping of non-negative integers the tier is a total
\* function of the average: Pokéball iff avg <= 50, Superball iff
\* 50 < avg <= 100, Hyperball iff 100 < avg <= 150, Masterball iff avg > 150,
\* with avg = 0 for the empty mapping; and that is the tier in the row
\* create_database writes.
C3_Tier ==
  /\ call.fn = "Devis" /\ call.result # <<>> =>
       call.result[1] = TierOf(DictSum(call.arg[1]), Len(call.arg[1]))
  /\ call.fn = "LoopBody" /\ call.result # <<>> =>
       \A i \in 1..Len(call.result[1].written) :
         LET info == call.result[1].written[i].row[1]
         IN info.devis = TierOf(DictSum(info.stats), Len(info.stats))

\* two entries whose average is exactly 50 have been classified
C3_Witness ==
  /\ call.fn = "Devis"
  /\ call.result = <<"Pokéball">>
  /\ Len(call.arg[1]) = 2
  /\ DictSum(call.arg[1]) = 100
  /\ call.arg[1][1].v = 49

\* C4: with a generation outside 1..9 the build fails with the invalid
\* generation error before any request is sent and before the output file
\* is opened or anything is written to it.
C4_InvalidGeneration ==
  generation # <<>> /\ generation[1] \notin 1..9 /\ pc # "create_database" =>
    /\ raised = <<Raise("ValueError", 105, 0)>>
    /\ requests = <<>>
    /\ file = "absent"
    /\ csvfile = <<>>
    /\ returned = <<>>

\* the build of generation 10 has failed and main has reported it
C4_Witness ==
  /\ generation = <<10>>
  /\ pc = "exit"
  /\ raised # <<>>

\* the file is empty until it is opened; from then on its first line is the
\* header and every other line is a data row
C5_Layout ==
  /\ file = "absent" => csvfile = <<>>
  /\ file # "absent" =>
       /\ csvfile # <<>>
       /\ csvfile[1] = HeaderLine
       /\ \A i \in 2..Len(csvfile) : csvfile[i].kind = "data"

\* once a line is written nothing is written ahead of it; the only line an
\* iteration writes is the row of the member at idx, and idx only grows
C5_Step ==
  /\ IsPrefix(csvfile, csvfile')
  /\ idx' >= idx
  /\ pc = "loop" /\ csvfile' # csvfile =>
       /\ idx <= Len(all_pokemons)
       /\ idx' = idx + 1
       /\ ~MemberFails(all_pokemons[idx], response')
       /\ csvfile' = Append(csvfile, DataLine(WithDevis(parse_html(response'.text[1]).value[1])))

\* C5: the data rows are written in roster order, the row of an earlier
\* member before the row of a later one, and the header row is written
\* exactly once, before every data row.
C5_RosterOrder == [][C5_Step /\ C5_Layout']_vars

\* a finished run that wrote two different rows for a roster of two names
C5_Witness ==
  /\ pc = "exit"
  /\ returned # <<>>
  /\ Len(all_pokemons) = 2
  /\ Len(csvfile) = 3
  /\ csvfile[2] # csvfile[3]

\* the exception the last fetch gave its caller, where one was given: out
\* of create_database or get_pokemon to main, or to the handler of line 182
FetchFailed ==
  \/ pc = "except" /\ requests # <<>> /\ raised[1].line \in {34, 38, 40, 108, 136}
  \/ pc = "loop" /\ idx > 1 /\ stdout[Len(stdout)].line = 183
        /\ stdout[Len(stdout)].exc[1].line \in {34, 38, 40}
FetchFailure == IF pc = "except" THEN raised[1] ELSE stdout[Len(stdout)].exc[1]

\* the exception the same fetch raises for the status `code`
FailureFor(code) ==
  IF generation # <<>> /\ pc = "except"
  THEN get_pokemons_from_generation(generation[1], Response(code, [tables |-> <<>>])).exc[1]
  ELSE get_html_pokemon(<<>>, Response(code, EmptyPage)).exc[1]

\* the last fetch was that of the listing page
ListingFetch == generation # <<>> /\ pc = "except"

\* C6 as claimed: for every fetch, of a Pokémon page and of a listing page
\* alike, a 404 answer gives a failure of a kind distinguishable from the
\* kind given for any other status that is not 200, such as 500, and the
\* caller of the fetch receives that failure unmodified.
C6_NotFoundDistinct ==
  FetchFailed /\ ~response.failed /\ response.status_code = 404 =>
    /\ FetchFailure = FailureFor(404)
    /\ FetchFailure.type # FailureFor(500).type
    /\ FetchFailure.type # FailureFor(503).type

\* C6 as amended: for every fetch of a Pokémon page a 404 answer gives a
\* failure (ValueError) of a kind distinguishable from the kind (Exception)
\* given for any other status that is not 200; the fetch of a listing page
\* gives the same kind (Exception, with the status code) for 404 as for any
\* other status that is not 200; either way the caller of the fetch
\* receives the failure unmodified.
C6_PokemonNotFoundDistinct ==
  FetchFailed /\ ~response.failed =>
    /\ response.status_code # 200
    /\ FetchFailure = FailureFor(response.status_code)
    /\ FetchFailure.code = response.status_code
    /\ FetchFailure.type =
         IF ~ListingFetch /\ response.status_code = 404 THEN "ValueError" ELSE "Exception"

\* a roster member's page answered 404 and the handler of the loop got the
\* failure
C6_Witness ==
  /\ FetchFailed
  /\ pc = "loop"
  /\ ~response.failed
  /\ response.status_code = 404

\* roster retrieval fails: the generation is no key, the listing request
\* raises or is answered with a status other than 200, or the page has no
\* table of class tableaustandard
RosterFails(g, answer) ==
  \/ g \notin 1..9
  \/ answer.failed
  \/ answer.status_code # 200
  \/ \A t \in 1..Len(answer.text[1].tables) : ~answer.text[1].tables[t].standard

\* create_database was called and an exception left it
Propagated == generation # <<>> /\ pc = "except"

\* roster retrieval failed: no Pokémon page requested, nothing written
C7_NothingDone ==
  Propagated /\ RosterFails(generation[1], response) =>
    /\ raised[1].line \in {105, 108, 116, 136}
    /\ Len(requests) <= 1
    /\ \A i \in 1..Len(requests) : requests[i] = POKEPEDIA \o GENERTAIONS_URL[generation[1]]
    /\ file = "absent"
    /\ csvfile = <<>>

\* create_database goes past line 144 only if roster retrieval did not fail
C7_FailurePropagates ==
  /\ pc = "open" => ~RosterFails(generation[1], response)
  /\ pc = "loop" \/ returned # <<>> => raised = <<>>

\* C7 as claimed: create_database propagates a failure if and only if roster
\* retrieval fails, and then no Pokémon page is fetched and no header or
\* data row is written.
C7_PropagatesIffRosterFails ==
  /\ Propagated => RosterFails(generation[1], response)
  /\ C7_FailurePropagates
  /\ C7_NothingDone

\* C7 as amended: create_database propagates a failure if and only if roster
\* retrieval fails or the open(...) of line 147 fails; when roster retrieval
\* fails no Pokémon page is fetched and no header or data row is written.
C7_PropagatesIffRosterOrOpenFails ==
  /\ Propagated =>
       \/ RosterFails(generation[1], response)
       \/ raised = <<Raise("OSError", 147, 0)>> /\ csvfile = <<>>
  /\ C7_FailurePropagates
  /\ C7_NothingDone

\* a listing page without the table made create_database fail
C7_Witness ==
  /\ Propagated
  /\ raised[1].line = 116
  /\ requests # <<>>

NamedRow(row) ==
  /\ Len(row.tds) >= 3
  /\ \E l \in 1..Len(row.tds[3].links) : row.tds[3].links[l].title # <<>>

\* the rows of the listing table of the last answer
ListingRowsOf(answer) ==
  LET tables == answer.text[1].tables
  IN tables[CHOOSE t \in 1..Len(tables) :
              tables[t].standard /\ \A u \in 1..(t - 1) : ~tables[u].standard].rows

\* the number of named rows among the first i rows
NamedUpTo(rows, i) == Cardinality({j \in 1..i : NamedRow(rows[j])})

\* C9: the roster holds exactly one name per row that has at least 3 data
\* cells and a titled link in the 3rd, in the order of the rows; the other
\* rows are skipped without error, and a table with no such row gives the
\* empty roster, not a failure.
C9_Roster ==
  /\ pc = "open" =>
       LET rows == ListingRowsOf(response)
       IN /\ Len(all_pokemons) = NamedUpTo(rows, Len(rows))
          /\ \A i \in 1..Len(rows) :
               NamedRow(rows[i]) =>
                 all_pokemons[NamedUpTo(rows, i)] =
                   capitalize(strip(rows[i].tds[3].links[FindTitledLink(rows[i].tds[3].links)].title[1]))
  /\ Propagated /\ generation[1] \in 1..9 /\ ~response.failed /\ response.status_code = 200
       /\ (\E t \in 1..Len(response.text[1].tables) : response.text[1].tables[t].standard)
       => raised[1].line \notin {105, 108, 116, 136}

\* a roster of two names from a table of three rows, the second skipped
C9_Witness ==
  /\ pc = "open"
  /\ Len(all_pokemons) = 2
  /\ all_pokemons[1] # all_pokemons[2]
  /\ Len(ListingRowsOf(response)) = 3
  /\ ~NamedRow(ListingRowsOf(response)[2])

\* the stats table of the page has a stat row (a link titled Statistique,
\* at least 2 data cells) whose 2nd data cell is no integer
HasBadStatRow(page) ==
  /\ page.span
  /\ FindStandardTable(page.tables) > 0
  /\ \E i \in 1..Len(page.tables[FindStandardTable(page.tables)].rows) :
       LET row == page.tables[FindStandardTable(page.tables)].rows[i]
       IN /\ \E l \in 1..Len(RowLinks(row)) : RowLinks(row)[l].title = <<StatistiqueTitle>>
          /\ Len(row.tds) >= 2
          /\ ~IntParses(row.tds[2].text)

\* C10: if a stat row of the stats table has a 2nd data cell that is no
\* integer, parse_html fails and returns no record, so never one with a
\* partial stats mapping, and create_database writes no row for the member.
C10_NoPartialStats ==
  /\ call.fn = "parse_html" /\ call.result # <<>> /\ HasBadStatRow(call.arg[1]) =>
       /\ call.result[1].exc # <<>>
       /\ call.result[1].value = <<>>
  /\ call.fn = "LoopBody" /\ call.result # <<>> /\ HasBadStatRow(call.arg[1]) =>
       /\ call.result[1].written = <<>>
       /\ call.result[1].exc = <<>>

\* the loop body has met a page, complete but for its stats, whose first
\* stat row has an integer and whose second has none
C10_Witness ==
  /\ call.fn = "LoopBody"
  /\ call.result # <<>>
  /\ HasBadStatRow(call.arg[1])
  /\ call.result[1].printed[Len(call.result[1].printed)].exc = <<Raise("ValueError", 84, 0)>>
  /\ Len(call.arg[1].tables[1].rows) = 2
  /\ IntParses(call.arg[1].tables[1].rows[1].tds[Len(call.arg[1].tables[1].rows[1].tds)].text)
  /\ Len(call.arg[1].tables[1].rows[1].tds) >= 2

====
